---- MODULE Spec2Model ----
(***************************************************************************)
(* Restaurant tipping dashboard (src/app.py): one Shiny session.           *)
(*                                                                         *)
(* The server keeps the six filter inputs, the dataset returned by         *)
(* read_file(), the cached value of the reactive calc tips_data() and the  *)
(* five rendered outputs.  A client message (a widget change, a click on   *)
(* the reset button, the client's answer to the update messages of         *)
(* reset_filters) or a change of tips.csv is handled first; the reactive   *)
(* flush that re-executes the invalidated calc and outputs follows before  *)
(* the next event is taken.                                                *)
(*                                                                         *)
(* total_bill is counted in dollars, like the values of the bill slider,   *)
(* and tip in cents (a tip of 3.01 is 301), so that the two decimals the   *)
(* value boxes print are exact.                                            *)
(***************************************************************************)
EXTENDS Integers, Sequences, FiniteSets, TLC

VARIABLES
    tips,      \* the data frame read_file() returns: a sequence of rows
    input,     \* the six filter inputs as the server holds them
    updates,   \* batches of update messages sent by reset_filters, not yet
               \* applied by the client
    dirty,     \* TRUE when tips_data and the outputs are invalidated
    data,      \* the cached result of tips_data(): the filtered frame
    out,       \* the five outputs as last sent to the client
    resetHit   \* history: -1, or the number of inputs the last processed
               \* reset changed (no later widget change)

vars == <<tips, input, updates, dirty, data, out, resetHit>>

----------------------------------------------------------------------------
(* Bounds of the model *)

\* longest dataset explored
MaxRows == 2
\* positions of the bill slider that the user is taken to choose from
NBillStops == 2
\* positions of the party-size slider that the user is taken to choose from
NSizeStops == 2
\* reset clicks whose update messages may be in flight at once
MaxPendingResets == 1

----------------------------------------------------------------------------
(* Constants of the program *)

BillMin == 10
BillMax == 50
SizeMin == 1
SizeMax == 6
LineSamples == 100

TimeChoices == {"Lunch", "Dinner"}
SexChoices == {"Male", "Female"}
SmokerChoices == {"Yes", "No"}
DayChoices == {"Thur", "Fri", "Sat", "Sun"}

NoData == "No data available"

\* The values the six controls are created with.
InitialInput ==
    [total_bill |-> <<BillMin, BillMax>>,
     time       |-> {"Lunch", "Dinner"},
     sex        |-> {"Male", "Female"},
     smoker     |-> {"Yes", "No"},
     day        |-> {"Thur", "Fri", "Sat", "Sun"},
     size       |-> <<SizeMin, SizeMax>>]

----------------------------------------------------------------------------
(* Datasets and the values a user can give the controls *)

\* Rows of tips.csv: total_bill (dollars), tip (cents), sex, smoker, day,
\* time, size.  The bills lie on and beyond the ends of the bill slider.
RowPool ==
    { [total_bill |-> 10, tip |-> 150, sex |-> "Female", smoker |-> "No",
       day |-> "Thur", time |-> "Lunch", size |-> 1],
      [total_bill |-> 50, tip |-> 301, sex |-> "Male", smoker |-> "No",
       day |-> "Sun", time |-> "Dinner", size |-> 6],
      [total_bill |-> 10, tip |-> 200, sex |-> "Male", smoker |-> "Yes",
       day |-> "Fri", time |-> "Dinner", size |-> 2],
      [total_bill |-> 51, tip |-> 1000, sex |-> "Male", smoker |-> "Yes",
       day |-> "Sat", time |-> "Dinner", size |-> 3] }

\* every table of at most MaxRows rows of the pool
Datasets == UNION { [1..n -> RowPool] : n \in 0..MaxRows }

\* the contents tips.csv takes during a session: the sample table, cut after
\* any of its rows
SampleTable ==
    << [total_bill |-> 10, tip |-> 150, sex |-> "Female", smoker |-> "No",
        day |-> "Thur", time |-> "Lunch", size |-> 1],
       [total_bill |-> 50, tip |-> 301, sex |-> "Male", smoker |-> "No",
        day |-> "Sun", time |-> "Dinner", size |-> 6],
       [total_bill |-> 51, tip |-> 1000, sex |-> "Male", smoker |-> "Yes",
        day |-> "Sat", time |-> "Dinner", size |-> 3] >>

SessionTables == { SubSeq(SampleTable, 1, n) : n \in 0..Len(SampleTable) }

\* n slider positions spread from lo to hi, both ends included
Stops(lo, hi, n) ==
    IF n < 2 THEN {lo} ELSE { lo + ((hi - lo) * i) \div (n - 1) : i \in 0..(n - 1) }

\* a range slider holds a pair (low, high) with low <= high
Ranges(S) == { r \in S \X S : r[1] <= r[2] }

InputValues(id) ==
    CASE id = "total_bill" -> Ranges(Stops(BillMin, BillMax, NBillStops))
      [] id = "time"       -> SUBSET TimeChoices
      [] id = "sex"        -> SUBSET SexChoices
      [] id = "smoker"     -> SUBSET SmokerChoices
      [] id = "day"        -> SUBSET DayChoices
      [] id = "size"       -> Ranges(Stops(SizeMin, SizeMax, NSizeStops))

InputIds == {"total_bill", "time", "sex", "smoker", "day", "size"}

\* every value the six inputs can hold together
FilterStates ==
    [total_bill : InputValues("total_bill"), time : InputValues("time"),
     sex : InputValues("sex"), smoker : InputValues("smoker"),
     day : InputValues("day"), size : InputValues("size")]

----------------------------------------------------------------------------
(* tips_data: the filter *)

\* mutant: the ends of the interval left out
between_exclusive(x, left, right) == left < x /\ x < right

\* pandas Series.between(left, right): both ends included
between(x, left, right) == left <= x /\ x <= right

\* mutant: an empty selection taken to mean "no filter"
isin_or_unfiltered(x, values) == values = {} \/ x \in values

\* pandas Series.isin(values)
isin(x, values) == x \in values

\* a boolean Series over the rows of the frame, one per filter
idx1(frame, inp) ==
    [i \in 1..Len(frame) |->
        between(frame[i].total_bill, inp.total_bill[1], inp.total_bill[2])]
idx2(frame, inp) == [i \in 1..Len(frame) |-> isin(frame[i].time, inp.time)]
idx3(frame, inp) == [i \in 1..Len(frame) |-> isin(frame[i].sex, inp.sex)]
idx4(frame, inp) == [i \in 1..Len(frame) |-> isin(frame[i].smoker, inp.smoker)]
idx5(frame, inp) == [i \in 1..Len(frame) |-> isin(frame[i].day, inp.day)]
idx6(frame, inp) ==
    [i \in 1..Len(frame) |-> between(frame[i].size, inp.size[1], inp.size[2])]

\* the operator & of two boolean Series
BitAnd(a, b) == [i \in DOMAIN a |-> a[i] /\ b[i]]

\* boolean indexing tips[mask]: the rows whose mask is True, each with the
\* index label it has in tips, in the order of tips
RECURSIVE Mask(_, _, _)
Mask(frame, mask, i) ==
    IF i > Len(frame) THEN <<>>
    ELSE (IF mask[i] THEN << [index |-> i, row |-> frame[i]] >> ELSE <<>>)
         \o Mask(frame, mask, i + 1)

\* the conjunction idx1 & idx2 & idx3 & idx4 & idx5 & idx6
AllSix(frame, inp) ==
    BitAnd(BitAnd(BitAnd(BitAnd(BitAnd(idx1(frame, inp), idx2(frame, inp)),
        idx3(frame, inp)), idx4(frame, inp)), idx5(frame, inp)), idx6(frame, inp))

\* mutant: the kept rows returned last first
tips_data_reversed(frame, inp) ==
    LET kept == Mask(frame, AllSix(frame, inp), 1)
    IN  [k \in 1..Len(kept) |-> kept[Len(kept) + 1 - k]]

tips_data(frame, inp) == Mask(frame, AllSix(frame, inp), 1)

----------------------------------------------------------------------------
(* The four value boxes *)

RECURSIVE Sum(_)
Sum(s) == IF s = <<>> THEN 0 ELSE Head(s) + Sum(Tail(s))

RECURSIVE Max(_)
Max(s) ==
    IF Len(s) = 1 THEN s[1]
    ELSE LET m == Max(Tail(s)) IN IF s[1] >= m THEN s[1] ELSE m

RECURSIVE Min(_)
Min(s) ==
    IF Len(s) = 1 THEN s[1]
    ELSE LET m == Min(Tail(s)) IN IF s[1] <= m THEN s[1] ELSE m

\* a column of the frame
Column(frame, name) == [k \in 1..Len(frame) |-> frame[k].row[name]]

\* f"${x:.2f}" of an amount of c cents
Money(c) ==
    "$" \o ToString(c \div 100) \o "."
        \o (IF c % 100 < 10 THEN "0" ELSE "") \o ToString(c % 100)

\* The mean s/n rounded to a whole cent by the format ".2f".  A mean that
\* falls exactly between two cents is printed as either neighbour, depending
\* on the binary floating-point value pandas computed: half_up chooses.
RoundedMean(s, n, half_up) ==
    LET q == s \div n
        r == s % n
    IN  IF 2 * r < n THEN q
        ELSE IF 2 * r > n THEN q + 1
        ELSE IF half_up THEN q + 1 ELSE q

\* mutant: the count printed for an empty frame too
total_sales_unguarded(frame) ==
    IF Len(frame) >= 0 THEN ToString(Len(frame)) \o " sales" ELSE NoData

total_sales(frame) ==
    IF Len(frame) > 0 THEN ToString(Len(frame)) \o " sales" ELSE NoData

average_tip(frame, half_up) ==
    IF Len(frame) > 0
    THEN Money(RoundedMean(Sum(Column(frame, "tip")), Len(frame), half_up))
    ELSE NoData

\* mutant: the tip of the last row instead of the largest
highest_tip_last(frame) ==
    IF Len(frame) > 0 THEN Money(Column(frame, "tip")[Len(frame)]) ELSE NoData

highest_tip(frame) ==
    IF Len(frame) > 0 THEN Money(Max(Column(frame, "tip"))) ELSE NoData

lowest_tip(frame) ==
    IF Len(frame) > 0 THEN Money(Min(Column(frame, "tip"))) ELSE NoData

----------------------------------------------------------------------------
(* The scatter plot and its line of best fit *)

RECURSIVE Dot(_, _)
Dot(a, b) == IF a = <<>> THEN 0 ELSE Head(a) * Head(b) + Dot(Tail(a), Tail(b))

\* np.polyfit(x, y, 1): the least-squares line, as exact fractions
\* <<numerator, denominator>>.  When the x values are all equal the system
\* has rank 1; lstsq then returns the solution of least norm of the
\* column-scaled system (a RankWarning is issued, nothing is raised):
\* slope = mean(y) / (2 x), intercept = mean(y) / 2.
polyfit(x, y) ==
    LET n == Len(x)
        det == n * Dot(x, x) - Sum(x) * Sum(x)
    IN  IF det # 0
        THEN [slope     |-> <<n * Dot(x, y) - Sum(x) * Sum(y), det>>,
              intercept |-> <<Sum(y) * Dot(x, x) - Sum(x) * Dot(x, y), det>>,
              rank      |-> 2]
        ELSE [slope     |-> <<Sum(y), 2 * n * x[1]>>,
              intercept |-> <<Sum(y), 2 * n>>,
              rank      |-> 1]

\* The figure: its title and its traces.  The line trace stands for the
\* LineSamples points (line_x, slope * line_x + intercept).
scatter_plot(frame) ==
    IF Len(frame) > 0
    THEN LET x_vals == Column(frame, "total_bill")
             y_vals == Column(frame, "tip")
             fit == polyfit(x_vals, y_vals)
         IN  [title  |-> "Total Bill vs Tip",
              traces |-> << [name |-> "", mode |-> "markers",
                             x |-> x_vals, y |-> y_vals],
                            [name |-> "Line of Best Fit", mode |-> "lines",
                             slope |-> fit.slope, intercept |-> fit.intercept,
                             rank |-> fit.rank,
                             x |-> <<Min(x_vals), Max(x_vals)>>,
                             samples |-> LineSamples] >>]
    ELSE [title |-> NoData, traces |-> <<>>]

\* what the outputs show for a frame
Rendered(frame, half_up) ==
    [total_sales  |-> total_sales(frame),
     average_tip  |-> average_tip(frame, half_up),
     highest_tip  |-> highest_tip(frame),
     lowest_tip   |-> lowest_tip(frame),
     scatter_plot |-> scatter_plot(frame)]

----------------------------------------------------------------------------
(* reset_filters *)

\* mutant: the message for the smoker checkboxes forgotten
reset_filters_no_smoker ==
    << [id |-> "total_bill", value |-> <<10, 50>>],
       [id |-> "time",       value |-> {"Lunch", "Dinner"}],
       [id |-> "sex",        value |-> {"Male", "Female"}],
       [id |-> "day",        value |-> {"Thur", "Fri", "Sat", "Sun"}],
       [id |-> "size",       value |-> <<1, 6>>] >>

\* mutant: the party-size slider reset short of its upper end
reset_filters_size_short ==
    << [id |-> "total_bill", value |-> <<10, 50>>],
       [id |-> "time",       value |-> {"Lunch", "Dinner"}],
       [id |-> "sex",        value |-> {"Male", "Female"}],
       [id |-> "smoker",     value |-> {"Yes", "No"}],
       [id |-> "day",        value |-> {"Thur", "Fri", "Sat", "Sun"}],
       [id |-> "size",       value |-> <<1, 5>>] >>

\* the six update messages, in the order they are sent
reset_filters ==
    << [id |-> "total_bill", value |-> <<10, 50>>],
       [id |-> "time",       value |-> {"Lunch", "Dinner"}],
       [id |-> "sex",        value |-> {"Male", "Female"}],
       [id |-> "smoker",     value |-> {"Yes", "No"}],
       [id |-> "day",        value |-> {"Thur", "Fri", "Sat", "Sun"}],
       [id |-> "size",       value |-> <<1, 6>>] >>

\* the client sets each named control to the value of its message; the new
\* values reach the server together
RECURSIVE ApplyUpdates(_, _)
ApplyUpdates(inp, msgs) ==
    IF msgs = <<>> THEN inp
    ELSE ApplyUpdates([inp EXCEPT ![Head(msgs).id] = Head(msgs).value], Tail(msgs))

\* mutant: input.size() read without a reactive dependency
tips_data_inputs_size_isolated == {"total_bill", "time", "sex", "smoker", "day"}

\* the inputs tips_data reads: a change of any of them invalidates it
tips_data_inputs == {"total_bill", "time", "sex", "smoker", "day", "size"}

Changed(old, new) == { id \in InputIds : old[id] # new[id] }

----------------------------------------------------------------------------
(* The session *)

Init ==
    /\ tips \in SessionTables
    /\ input = InitialInput
    /\ updates = <<>>
    /\ dirty = FALSE
    /\ data = tips_data(tips, input)
    /\ \E half_up \in BOOLEAN : out = Rendered(data, half_up)
    /\ resetHit = -1

\* the user moves a slider or ticks a checkbox
UserInput(id, value) ==
    /\ ~dirty
    /\ input[id] # value
    /\ input' = [input EXCEPT ![id] = value]
    /\ dirty' = (id \in tips_data_inputs)
    /\ resetHit' = -1
    /\ UNCHANGED <<tips, updates, data, out>>

\* the user clicks "Reset filter": reset_filters runs and its six update
\* messages leave for the client; no input has changed yet
ResetClick ==
    /\ ~dirty
    /\ Len(updates) < MaxPendingResets
    /\ updates' = Append(updates, reset_filters)
    /\ UNCHANGED <<tips, input, dirty, data, out, resetHit>>

\* the client applies a batch of update messages and reports the new values
ClientUpdate ==
    /\ ~dirty
    /\ updates # <<>>
    /\ input' = ApplyUpdates(input, Head(updates))
    /\ updates' = Tail(updates)
    /\ dirty' = (Changed(input, input') \cap tips_data_inputs # {})
    /\ resetHit' = Cardinality(Changed(input, input'))
    /\ UNCHANGED <<tips, data, out>>

\* tips.csv changes on disk: read_file() returns the new contents
FileChanged ==
    /\ ~dirty
    /\ \E frame \in SessionTables :
          /\ frame # tips
          /\ tips' = frame
    /\ dirty' = TRUE
    /\ UNCHANGED <<input, updates, data, out, resetHit>>

\* mutant: the filter applied to the cached frame in place
Flush_in_place ==
    /\ dirty
    /\ data' = tips_data(tips, input)
    /\ \E half_up \in BOOLEAN : out' = Rendered(data', half_up)
    /\ dirty' = FALSE
    /\ tips' = [k \in 1..Len(data') |-> data'[k].row]
    /\ UNCHANGED <<input, updates, resetHit>>

\* the reactive flush: tips_data is computed once, the five outputs are
\* rendered from it and sent to the client
Flush ==
    /\ dirty
    /\ data' = tips_data(tips, input)
    /\ \E half_up \in BOOLEAN : out' = Rendered(data', half_up)
    /\ dirty' = FALSE
    /\ UNCHANGED <<tips, input, updates, resetHit>>

Next ==
    \/ \E id \in InputIds : \E value \in InputValues(id) : UserInput(id, value)
    \/ ResetClick
    \/ ClientUpdate
    \/ FileChanged
    \/ Flush

Spec == Init /\ [][Next]_vars

----------------------------------------------------------------------------
(* The recomputation alone: any table, any filter state, the calc and the  *)
(* outputs invalidated after a state in which no row passed the filter     *)

FilterInit ==
    /\ tips \in Datasets
    /\ input \in FilterStates
    /\ updates = <<>>
    /\ dirty = TRUE
    /\ data = <<>>
    /\ out = Rendered(<<>>, FALSE)
    /\ resetHit = -1

FilterNext == Flush

FilterSpec == FilterInit /\ [][FilterNext]_vars

----------------------------------------------------------------------------
(* Properties *)

\* the six predicates of the filter, stated on one row
PassesAll(row, st) ==
    /\ st.total_bill[1] <= row.total_bill /\ row.total_bill <= st.total_bill[2]
    /\ row.time \in st.time
    /\ row.sex \in st.sex
    /\ row.smoker \in st.smoker
    /\ row.day \in st.day
    /\ st.size[1] <= row.size /\ row.size <= st.size[2]

\* the index labels of the filtered frame
Retained == { data[k].index : k \in 1..Len(data) }

\* the tips of the filtered frame
RetainedTips == { data[k].row.tip : k \in 1..Len(data) }

\* the documented default snapshot
DefaultSnapshot ==
    [total_bill |-> <<10, 50>>,
     time       |-> {"Lunch", "Dinner"},
     sex        |-> {"Male", "Female"},
     smoker     |-> {"Yes", "No"},
     day        |-> {"Thur", "Fri", "Sat", "Sun"},
     size       |-> <<1, 6>>]

\* C1: once recomputed, the filtered frame holds only rows of the dataset,
\* every retained row satisfies all six predicates, and every row of the
\* dataset that is not retained fails at least one of them.
C1_RetainedIffAllSix ==
    ~dirty =>
        /\ \A k \in 1..Len(data) :
              /\ data[k].index \in 1..Len(tips)
              /\ data[k].row = tips[data[k].index]
              /\ PassesAll(data[k].row, input)
        /\ \A i \in 1..Len(tips) :
              i \notin Retained => ~PassesAll(tips[i], input)

\* C1 witness: a recomputed view that keeps one row and drops another which
\* fails the bill range alone
C1_Witness ==
    /\ ~dirty
    /\ Len(tips) = 2 /\ Len(data) = 1
    /\ \E i \in 1..Len(tips) :
          /\ i \notin Retained
          /\ tips[i].total_bill > input.total_bill[2]
          /\ PassesAll(tips[i], [input EXCEPT !.total_bill = <<10, 51>>])

\* C2: when any of the four category selections is empty the filtered frame
\* is empty whatever the other filters are, and the outputs are rendered
\* normally, as "No data available".
C2_EmptySelectionEmptiesView ==
    (~dirty /\ (input.time = {} \/ input.sex = {} \/ input.smoker = {} \/ input.day = {}))
        => /\ data = <<>>
           /\ out.total_sales = "No data available"
           /\ out.scatter_plot.title = "No data available"

\* C2 witness: only the day selection is empty, every other filter at its
\* widest, and the dataset has rows
C2_Witness ==
    /\ ~dirty
    /\ input = [DefaultSnapshot EXCEPT !.day = {}]
    /\ Len(tips) = 2
    /\ data = <<>>

\* C5 as claimed: with fewer than two rows or fewer than two distinct
\* total_bill values in the filtered frame, no line is fitted and the chart
\* is the empty placeholder.
C5_DegenerateFitIsPlaceholder ==
    (~dirty /\ Cardinality({ data[k].row.total_bill : k \in 1..Len(data) }) < 2)
        => /\ out.scatter_plot.title = "No data available"
           /\ out.scatter_plot.traces = <<>>

\* C8: for a non-empty filtered frame the count shown is its number of rows,
\* the highest and lowest tip shown are the largest and smallest tip of
\* exactly those rows, and the average shown lies between the two.
C8_SummaryOfRetainedRows ==
    (~dirty /\ Len(data) > 0) =>
        LET hi == CHOOSE m \in RetainedTips : \A t \in RetainedTips : t <= m
            lo == CHOOSE m \in RetainedTips : \A t \in RetainedTips : m <= t
        IN  /\ out.total_sales = ToString(Len(data)) \o " sales"
            /\ out.highest_tip = Money(hi)
            /\ out.lowest_tip = Money(lo)
            /\ \E c \in lo..hi : out.average_tip = Money(c)

\* C8 witness: two retained rows whose tips differ, the larger one first,
\* the average strictly between them
C8_Witness ==
    /\ ~dirty
    /\ Len(data) = 2
    /\ data[1].row.tip > data[2].row.tip
    /\ out.average_tip \notin {out.lowest_tip, out.highest_tip}

\* C9: the filtered frame keeps the rows in the order of the dataset and
\* holds no row twice: the index labels increase strictly along it.  With
\* C1 this fixes the frame for a dataset and a filter state completely.
C9_OrderPreservedNoDuplicates ==
    ~dirty =>
        /\ \A j, k \in 1..Len(data) : j < k => data[j].index < data[k].index
        /\ Cardinality(Retained) = Len(data)

\* C9 witness: two equal rows of the dataset, both retained
C9_Witness ==
    /\ ~dirty
    /\ Len(tips) = 2 /\ tips[1] = tips[2]
    /\ Len(data) = 2
    /\ data[1].index = 1 /\ data[2].index = 2

\* C3: the step that processes a reset leaves the filter state equal to the
\* default snapshot, all six fields, whatever the state before it.
C3_ResetRestoresDefaults ==
    [][Len(updates') < Len(updates) => input' = DefaultSnapshot]_vars

\* C3 witness: a reset has been processed from a state in which all six
\* fields differed from their defaults
C3_Witness ==
    /\ resetHit = 6
    /\ input = DefaultSnapshot
    /\ updates = <<>>

\* every row lies within the default ranges and selections
DefaultsSpan(frame) ==
    \A i \in 1..Len(frame) :
        /\ 10 <= frame[i].total_bill /\ frame[i].total_bill <= 50
        /\ 1 <= frame[i].size /\ frame[i].size <= 6
        /\ frame[i].time \in {"Lunch", "Dinner"}
        /\ frame[i].sex \in {"Male", "Female"}
        /\ frame[i].smoker \in {"Yes", "No"}
        /\ frame[i].day \in {"Thur", "Fri", "Sat", "Sun"}

\* C4: after a reset has been processed and the view recomputed, the
\* filtered frame is the whole dataset, provided the defaults span the data.
C4_ResetShowsWholeDataset ==
    (~dirty /\ resetHit >= 0 /\ DefaultsSpan(tips)) =>
        /\ Len(data) = Len(tips)
        /\ \A i \in 1..Len(tips) : data[i] = [index |-> i, row |-> tips[i]]

\* C4 witness: a reset that changed the party-size range, among others, has
\* been processed and recomputed over a dataset of two rows within the
\* defaults, one of them with a party of six
C4_Witness ==
    /\ ~dirty
    /\ resetHit >= 2
    /\ Len(tips) = 2 /\ DefaultsSpan(tips)
    /\ tips[2].size = 6
    /\ Len(data) = 2

\* C6: the five outputs agree on whether data is available: with an empty
\* filtered frame all of them show "No data available", with a non-empty one
\* none of them does.
C6_SentinelIffEmpty ==
    /\ data = <<>> =>
          /\ out.total_sales = "No data available"
          /\ out.average_tip = "No data available"
          /\ out.highest_tip = "No data available"
          /\ out.lowest_tip = "No data available"
          /\ out.scatter_plot.title = "No data available"
    /\ data # <<>> =>
          /\ out.total_sales # "No data available"
          /\ out.average_tip # "No data available"
          /\ out.highest_tip # "No data available"
          /\ out.lowest_tip # "No data available"
          /\ out.scatter_plot.title # "No data available"

\* C6 witness: a filter change has emptied the view of a dataset with rows
C6_Witness ==
    /\ ~dirty
    /\ Len(tips) > 0 /\ input # DefaultSnapshot
    /\ data = <<>>
    /\ out.lowest_tip = "No data available"

\* C7: whenever no recomputation is pending, the filtered frame is the one
\* of the current filter state and the current dataset, and the five outputs
\* are the ones rendered from it.
C7_OutputsReflectCurrentState ==
    ~dirty =>
        /\ Retained = { i \in 1..Len(tips) : PassesAll(tips[i], input) }
        /\ Len(data) = Cardinality(Retained)
        /\ \A k \in 1..Len(data) : data[k].row = tips[data[k].index]
        /\ \E half_up \in BOOLEAN : out = Rendered(data, half_up)

\* C7 witness: a reset that changed all six fields has been processed and
\* the outputs show the rows it brought back
C7_Witness ==
    /\ ~dirty
    /\ resetHit = 6
    /\ Len(data) = 2
    /\ out.total_sales = "2 sales"

\* C10: a recomputation step leaves the six fields of the filter state and
\* the dataset as they are; the filter state changes only in the step of a
\* widget change (one field) or of a processed reset.
C10_RecomputationLeavesStateAlone ==
    [][ /\ dirty => (input' = input /\ tips' = tips)
        /\ input' # input =>
              /\ tips' = tips
              /\ \/ Len(updates') < Len(updates)
                 \/ /\ updates' = updates
                    /\ Cardinality({ id \in InputIds : input'[id] # input[id] }) = 1
      ]_vars

\* C10 witness: a recomputation after a filter change has dropped a row from
\* the view, and the dataset still holds it
C10_Witness ==
    /\ ~dirty
    /\ input # DefaultSnapshot
    /\ Len(tips) = 3
    /\ Len(data) = 1

====
